---- MODULE Spec2Model ----
(***************************************************************************)
(* Model of the pis x86 lifter: the IR operand constructors of src/lib.rs  *)
(* and the decoding pipeline of src/x86.rs (legacy prefix scan, REX        *)
(* extraction, operand/address size resolution, push-register lowering).   *)
(*                                                                         *)
(* A u64 is an 8-tuple of bytes, least significant byte first, so that     *)
(* wrapping and masking keep the 64 bit width.  An Option is a sequence of *)
(* length 0 (None) or 1 (Some).  A panic of the program (assert!, slice    *)
(* index out of bounds, todo!) is an outcome of the call.                  *)
(***************************************************************************)
EXTENDS Integers, Sequences, FiniteSets, TLC

VARIABLES cpu_mode, code_segment_default_operand_size,
          input, code, by_group, rex, operand_size, address_size,
          insns, outcome, pc,
          op_value, op_size, op_call, op_result

vars == <<cpu_mode, code_segment_default_operand_size,
          input, code, by_group, rex, operand_size, address_size,
          insns, outcome, pc,
          op_value, op_size, op_call, op_result>>

decodeVars == <<cpu_mode, code_segment_default_operand_size,
                input, code, by_group, rex, operand_size, address_size,
                insns, outcome, pc>>

operandVars == <<op_value, op_size, op_call, op_result>>

----------------------------------------------------------------------------
(* Bounds of the model.                                                    *)

\* length of the arbitrary bytes that follow a conflict free prefix run
MaxRest == 1
\* length of the prefix run in front of an opcode tail
MaxRun == 1
\* number of bytes that trail the opcode byte
MaxTrailing == 1

----------------------------------------------------------------------------
(* Unsigned 64 bit integers, as 8 bytes, least significant first.          *)

U64Bytes == 1..8

ByteVal == 0..255

RECURSIVE ShiftRightBytes(_, _)
ShiftRightBytes(n, k) == IF k = 0 THEN n ELSE ShiftRightBytes(n \div 256, k - 1)

\* the u64 of a small natural number
ToU64(n) == [i \in U64Bytes |-> ShiftRightBytes(n, i - 1) % 256]

U64Zero == [i \in U64Bytes |-> 0]

U64Max == [i \in U64Bytes |-> 255]

LowerAllZero(v, i) == \A j \in U64Bytes : j < i => v[j] = 0

\* u64::wrapping_neg: !v + 1, the carry enters byte i iff all lower bytes
\* of !v are 255
WrappingNeg(v) ==
    [i \in U64Bytes |-> ((255 - v[i]) + (IF LowerAllZero(v, i) THEN 1 ELSE 0)) % 256]

\* 1u64 << bits, for bits < 64
Shl1(bits) ==
    [i \in U64Bytes |-> IF i = (bits \div 8) + 1 THEN 2^(bits % 8) ELSE 0]

\* v - 1 (wrapping): the borrow enters byte i iff all lower bytes are 0
Sub1(v) ==
    [i \in U64Bytes |-> (v[i] + 256 - (IF LowerAllZero(v, i) THEN 1 ELSE 0)) % 256]

RECURSIVE BitAnd(_, _)
BitAnd(a, b) ==
    IF a = 0 \/ b = 0 THEN 0
    ELSE (a % 2) * (b % 2) + 2 * BitAnd(a \div 2, b \div 2)

U64And(v, m) == [i \in U64Bytes |-> BitAnd(v[i], m[i])]

----------------------------------------------------------------------------
(* src/lib.rs: the IR model.                                               *)

OperandSpace == {"Ram", "Const", "Regs", "Tmp"}

OperandSize == {1, 2, 4, 8}

bytes(size) == size

bits(size) == bytes(size) * 8

Operand(space, offset, size) == [space |-> space, offset |-> offset, size |-> size]

constant(value, size) == Operand("Const", value, size)

negative_constant(absolute_value, size) ==
    LET mask == IF bits(size) = 64 THEN U64Max ELSE Sub1(Shl1(bits(size)))
    IN  constant(U64And(WrappingNeg(absolute_value), mask), size)

zero(size) == constant(U64Zero, size)

tmp(offset, size) == Operand("Tmp", offset, size)

Insn(opcode, first_operand, second_operand) ==
    [opcode |-> opcode, operands |-> <<first_operand, second_operand>>]

----------------------------------------------------------------------------
(* src/x86.rs: registers, prefixes.                                        *)

None == <<>>

Some(x) == <<x>>

\* define_reg_operands! {8, B8, RAX, RCX, RDX, RBX, RSP, ...}: RSP is the
\* fifth name, 4 steps of 8 after RAX at offset 0
RSP == Operand("Regs", ToU64(4 * 8), 8)

Reg == 0..7

RegMaxValue == 7

RegOperand(reg, size) == Operand("Regs", ToU64(reg * 8), size)

LegacyPrefixGroup == 0..3

\* LegacyPrefix, by discriminant (the prefix byte)
Lock == 240
Repnz == 242
RepOrRepz == 243
CsSegmentOverrideOrBranchNotTaken == 46
SsSegmentOverride == 54
DsSegmentOverrideOrBranchTaken == 62
EsSegmentOverride == 38
FsSegmentOverride == 100
GsSegmentOverride == 101
OperandSizeOverride == 102
AddressSizeOverride == 103

LegacyPrefix ==
    {Lock, Repnz, RepOrRepz,
     CsSegmentOverrideOrBranchNotTaken, SsSegmentOverride,
     DsSegmentOverrideOrBranchTaken, EsSegmentOverride,
     FsSegmentOverride, GsSegmentOverride,
     OperandSizeOverride, AddressSizeOverride}

group(prefix) ==
    CASE prefix \in {Lock, Repnz, RepOrRepz} -> 0
      [] prefix \in {CsSegmentOverrideOrBranchNotTaken, SsSegmentOverride,
                     DsSegmentOverrideOrBranchTaken, EsSegmentOverride,
                     FsSegmentOverride, GsSegmentOverride} -> 1
      [] prefix = OperandSizeOverride -> 2
      [] prefix = AddressSizeOverride -> 3

EmptyLegacyPrefixes == [g \in LegacyPrefixGroup |-> None]

\* add that tolerates a repeat of the prefix already recorded
add_TolerateRepeat(prefixes, prefix) ==
    IF prefixes[group(prefix)] # None /\ prefixes[group(prefix)] # <<prefix>>
    THEN [panic |-> TRUE, by_group |-> prefixes]
    ELSE [panic |-> FALSE,
          by_group |-> [prefixes EXCEPT ![group(prefix)] = <<prefix>>]]

\* add without the assert!: the later prefix replaces the earlier one
add_Overwrite(prefixes, prefix) ==
    [panic |-> FALSE,
     by_group |-> [prefixes EXCEPT ![group(prefix)] = <<prefix>>]]

\* add that indexes by_group by arrival, not by the group
add_ByArrival(prefixes, prefix) ==
    LET n == Cardinality({g \in LegacyPrefixGroup : prefixes[g] # <<>>})
    IN  IF n >= Cardinality(LegacyPrefixGroup)
        THEN [panic |-> TRUE, by_group |-> prefixes]
        ELSE [panic |-> FALSE, by_group |-> [prefixes EXCEPT ![n] = <<prefix>>]]

\* InsnLegacyPrefixes::add: the assert! panics when the group's entry is
\* occupied, otherwise the entry is set
add(prefixes, prefix) ==
    IF prefixes[group(prefix)] # None
    THEN [panic |-> TRUE, by_group |-> prefixes]
    ELSE [panic |-> FALSE,
          by_group |-> [prefixes EXCEPT ![group(prefix)] = Some(prefix)]]

contains(prefixes, prefix) == prefixes[group(prefix)] = Some(prefix)

\* RexPrefix::from_bits on the low nibble: bitpiece lays the fields out
\* from the least significant bit, in declaration order
RexFromBits(nibble) ==
    [w_bit |-> (nibble % 2) = 1,
     r_bit |-> ((nibble \div 2) % 2) = 1,
     x_bit |-> ((nibble \div 4) % 2) = 1,
     b_bit |-> ((nibble \div 8) % 2) = 1]

IsRexByte(b) == BitAnd(b, 240) = 64

X86CpuMode == {"RealMode", "ProtectedMode", "LongMode"}

X86SegmentDefaultOperandSize == {"B16", "B32"}

RexW(r) == r # None /\ r[1].w_bit

\* resolve_operand_size that lets the override win over REX.W
resolve_operand_size_OverrideFirst(mode, seg, legacy, r) ==
    IF legacy[2] = <<OperandSizeOverride>>
    THEN (IF (mode = "ProtectedMode" /\ seg = "B32") \/ mode = "LongMode" THEN 2 ELSE 4)
    ELSE (IF mode = "LongMode"
          THEN (IF r # <<>> /\ r[1].w_bit THEN 8 ELSE 4)
          ELSE (IF mode = "ProtectedMode" /\ seg = "B32" THEN 4 ELSE 2))

resolve_operand_size(mode, seg, legacy, r) ==
    CASE mode = "RealMode" ->
            IF contains(legacy, OperandSizeOverride) THEN 4 ELSE 2
      [] mode = "ProtectedMode" ->
            IF seg = "B16"
            THEN (IF contains(legacy, OperandSizeOverride) THEN 4 ELSE 2)
            ELSE (IF contains(legacy, OperandSizeOverride) THEN 2 ELSE 4)
      [] mode = "LongMode" ->
            IF RexW(r) THEN 8
            ELSE (IF contains(legacy, OperandSizeOverride) THEN 2 ELSE 4)

\* resolve_address_size that treats REX.W as it does for the operand size
resolve_address_size_RexWForces(mode, seg, legacy, r) ==
    IF mode = "LongMode" /\ r # <<>> /\ r[1].w_bit THEN 8
    ELSE IF legacy[3] = <<AddressSizeOverride>>
         THEN (IF (mode = "ProtectedMode" /\ seg = "B32") \/ mode = "LongMode" THEN 2 ELSE 4)
         ELSE (IF (mode = "ProtectedMode" /\ seg = "B32") \/ mode = "LongMode" THEN 4 ELSE 2)

resolve_address_size(mode, seg, legacy, r) ==
    CASE mode = "RealMode" ->
            IF contains(legacy, AddressSizeOverride) THEN 4 ELSE 2
      [] mode = "ProtectedMode" ->
            IF seg = "B16"
            THEN (IF contains(legacy, AddressSizeOverride) THEN 4 ELSE 2)
            ELSE (IF contains(legacy, AddressSizeOverride) THEN 2 ELSE 4)
      [] mode = "LongMode" ->
            IF RexW(r)
            THEN (IF contains(legacy, AddressSizeOverride) THEN 4 ELSE 8)
            ELSE (IF contains(legacy, AddressSizeOverride) THEN 2 ELSE 4)

\* translate_push_reg that pushes at the resolved operand size
translate_push_reg_ResolvedWidth(reg, ctx_operand_size) ==
    << Insn("Add", RSP, negative_constant(ToU64(ctx_operand_size), ctx_operand_size)),
       Insn("Store", RSP, RegOperand(reg, ctx_operand_size)) >>

translate_push_reg(reg, ctx_operand_size) ==
    << Insn("Add", RSP, negative_constant(ToU64(8), 8)),
       Insn("Store", RSP, RegOperand(reg, 8)) >>

IsPushRegCode(c) == Len(c) = 1 /\ c[1] >= 80 /\ c[1] <= 80 + RegMaxValue

----------------------------------------------------------------------------
(* The inputs.                                                             *)

RECURSIVE SeqsUpTo(_, _)
SeqsUpTo(S, n) ==
    IF n = 0 THEN {<<>>}
    ELSE LET shorter == SeqsUpTo(S, n - 1)
         IN  shorter \cup {Append(s, b) : s \in shorter, b \in S}

GroupsOf(run) == {group(run[i]) : i \in 1..Len(run)}

\* the prefix runs with at most one prefix per group, of length at most n
RECURSIVE ConflictFreeRuns(_)
ConflictFreeRuns(n) ==
    IF n = 0 THEN {<<>>}
    ELSE LET shorter == ConflictFreeRuns(n - 1)
         IN  shorter \cup
             UNION {{Append(r, p) : p \in {q \in LegacyPrefix : group(q) \notin GroupsOf(r)}}
                    : r \in shorter}

\* 0x41 and 0x48
RexBytes == {65, 72}

\* 0x50 ..= 0x57
PushRegBytes == 80..87

\* 0x58 and 0x90, bytes of no recognized encoding
OtherBytes == {88, 144}

TrailingBytes == {144}

ScanBytes == LegacyPrefix \cup {80}

OptionalByte(S) == {<<>>} \cup {<<b>> : b \in S}

\* every conflict free prefix run, followed by arbitrary bytes
ScanInputs ==
    {r \o t : r \in ConflictFreeRuns(Cardinality(LegacyPrefixGroup)),
              t \in SeqsUpTo(ScanBytes, MaxRest)}

\* a short prefix run, then at most one REX byte, at most one more byte of
\* any kind, and trailing bytes
OpcodeInputs ==
    {r \o x \o o \o t :
        r \in ConflictFreeRuns(MaxRun),
        x \in OptionalByte(RexBytes),
        o \in OptionalByte(LegacyPrefix \cup RexBytes \cup PushRegBytes \cup OtherBytes),
        t \in SeqsUpTo(TrailingBytes, MaxTrailing)}

U64ByteVals == {0, 8, 255}

U64Inputs == [U64Bytes -> U64ByteVals]

----------------------------------------------------------------------------
(* X86Ctx::translate, step by step.                                        *)

NoOperand == <<>>

InitOperandVars ==
    /\ op_value = U64Zero
    /\ op_size = 1
    /\ op_call = "none"
    /\ op_result = NoOperand

Init ==
    /\ cpu_mode \in X86CpuMode
    /\ code_segment_default_operand_size \in X86SegmentDefaultOperandSize
    /\ input \in OpcodeInputs
    /\ code = input
    /\ by_group = EmptyLegacyPrefixes
    /\ rex = None
    /\ operand_size = None
    /\ address_size = None
    /\ insns = <<>>
    /\ outcome = "running"
    /\ pc = "extract_legacy_prefixes"
    /\ InitOperandVars

\* LegacyPrefix::iter().find(|prefix| code[0] == *prefix as u8) is Some,
\* under the loop condition !code.is_empty()
FindsPrefix(c) == IF c = <<>> THEN FALSE ELSE c[1] \in LegacyPrefix

\* one iteration of the while loop: the byte is a prefix and add succeeds
LegacyLoopAdd ==
    /\ pc = "extract_legacy_prefixes"
    /\ FindsPrefix(code)
    /\ ~add(by_group, code[1]).panic
    /\ by_group' = add(by_group, code[1]).by_group
    /\ code' = Tail(code)
    /\ UNCHANGED <<cpu_mode, code_segment_default_operand_size, input, rex,
                   operand_size, address_size, insns, outcome, pc>>
    /\ UNCHANGED operandVars

\* one iteration of the while loop: the assert! of add fails
LegacyLoopPanic ==
    /\ pc = "extract_legacy_prefixes"
    /\ FindsPrefix(code)
    /\ add(by_group, code[1]).panic
    /\ outcome' = "panic_same_group"
    /\ pc' = "done"
    /\ UNCHANGED <<cpu_mode, code_segment_default_operand_size, input, code,
                   by_group, rex, operand_size, address_size, insns>>
    /\ UNCHANGED operandVars

\* the loop ends: the code is empty or its first byte is no prefix
LegacyLoopExit ==
    /\ pc = "extract_legacy_prefixes"
    /\ ~FindsPrefix(code)
    /\ pc' = "extract_rex_prefix"
    /\ UNCHANGED <<cpu_mode, code_segment_default_operand_size, input, code,
                   by_group, rex, operand_size, address_size, insns, outcome>>
    /\ UNCHANGED operandVars

\* extract_rex_prefix: code[0] on an empty slice panics
RexIndexPanic ==
    /\ pc = "extract_rex_prefix"
    /\ code = <<>>
    /\ outcome' = "panic_index_out_of_bounds"
    /\ pc' = "done"
    /\ UNCHANGED <<cpu_mode, code_segment_default_operand_size, input, code,
                   by_group, rex, operand_size, address_size, insns>>
    /\ UNCHANGED operandVars

RexSome ==
    /\ pc = "extract_rex_prefix"
    /\ code # <<>>
    /\ IsRexByte(code[1])
    /\ rex' = Some(RexFromBits(BitAnd(code[1], 15)))
    /\ code' = Tail(code)
    /\ pc' = "resolve"
    /\ UNCHANGED <<cpu_mode, code_segment_default_operand_size, input,
                   by_group, operand_size, address_size, insns, outcome>>
    /\ UNCHANGED operandVars

RexNone ==
    /\ pc = "extract_rex_prefix"
    /\ code # <<>>
    /\ ~IsRexByte(code[1])
    /\ rex' = None
    /\ pc' = "resolve"
    /\ UNCHANGED <<cpu_mode, code_segment_default_operand_size, input, code,
                   by_group, operand_size, address_size, insns, outcome>>
    /\ UNCHANGED operandVars

\* the PostPrefixesCtx of translate
Resolve ==
    /\ pc = "resolve"
    /\ operand_size' = Some(resolve_operand_size(cpu_mode,
                            code_segment_default_operand_size, by_group, rex))
    /\ address_size' = Some(resolve_address_size(cpu_mode,
                            code_segment_default_operand_size, by_group, rex))
    /\ pc' = "dispatch"
    /\ UNCHANGED <<cpu_mode, code_segment_default_operand_size, input, code,
                   by_group, rex, insns, outcome>>
    /\ UNCHANGED operandVars

DispatchPushReg ==
    /\ pc = "dispatch"
    /\ IsPushRegCode(code)
    /\ insns' = translate_push_reg(code[1] - 80, operand_size[1])
    /\ outcome' = "translated"
    /\ pc' = "done"
    /\ UNCHANGED <<cpu_mode, code_segment_default_operand_size, input, code,
                   by_group, rex, operand_size, address_size>>
    /\ UNCHANGED operandVars

DispatchTodo ==
    /\ pc = "dispatch"
    /\ ~IsPushRegCode(code)
    /\ outcome' = "panic_todo"
    /\ pc' = "done"
    /\ UNCHANGED <<cpu_mode, code_segment_default_operand_size, input, code,
                   by_group, rex, operand_size, address_size, insns>>
    /\ UNCHANGED operandVars

Next ==
    \/ LegacyLoopAdd
    \/ LegacyLoopPanic
    \/ LegacyLoopExit
    \/ RexIndexPanic
    \/ RexSome
    \/ RexNone
    \/ Resolve
    \/ DispatchPushReg
    \/ DispatchTodo

Spec == Init /\ [][Next]_vars

----------------------------------------------------------------------------
(* extract_legacy_prefixes alone.  The function takes the code cursor only, *)
(* so the context is held at one value; its return is the arrival at       *)
(* extract_rex_prefix.                                                     *)

InitScan ==
    /\ cpu_mode = "LongMode"
    /\ code_segment_default_operand_size = "B32"
    /\ input \in ScanInputs
    /\ code = input
    /\ by_group = EmptyLegacyPrefixes
    /\ rex = None
    /\ operand_size = None
    /\ address_size = None
    /\ insns = <<>>
    /\ outcome = "running"
    /\ pc = "extract_legacy_prefixes"
    /\ InitOperandVars

NextScan ==
    \/ LegacyLoopAdd
    \/ LegacyLoopPanic
    \/ LegacyLoopExit

SpecScan == InitScan /\ [][NextScan]_vars

\* extract_legacy_prefixes as a function of the code: the loop, run to its
\* end from the prefixes collected so far
RECURSIVE extract_legacy_prefixes_from(_, _)
extract_legacy_prefixes_from(prefixes, c) ==
    IF ~FindsPrefix(c)
    THEN [panic |-> FALSE, by_group |-> prefixes, code |-> c]
    ELSE IF add(prefixes, c[1]).panic
         THEN [panic |-> TRUE, by_group |-> prefixes, code |-> c]
         ELSE extract_legacy_prefixes_from(add(prefixes, c[1]).by_group, Tail(c))

extract_legacy_prefixes(c) == extract_legacy_prefixes_from(EmptyLegacyPrefixes, c)

----------------------------------------------------------------------------
(* The operand constructors of src/lib.rs, each applied to drawn inputs.   *)

InitOperand ==
    /\ cpu_mode = "LongMode"
    /\ code_segment_default_operand_size = "B32"
    /\ input = <<>>
    /\ code = <<>>
    /\ by_group = EmptyLegacyPrefixes
    /\ rex = None
    /\ operand_size = None
    /\ address_size = None
    /\ insns = <<>>
    /\ outcome = "running"
    /\ pc = "operand"
    /\ op_value \in U64Inputs
    /\ op_size \in OperandSize
    /\ op_call = "none"
    /\ op_result = NoOperand

CallConstant ==
    /\ op_call = "none"
    /\ op_call' = "constant"
    /\ op_result' = Some(constant(op_value, op_size))
    /\ UNCHANGED <<op_value, op_size>>
    /\ UNCHANGED decodeVars

CallNegativeConstant ==
    /\ op_call = "none"
    /\ op_call' = "negative_constant"
    /\ op_result' = Some(negative_constant(op_value, op_size))
    /\ UNCHANGED <<op_value, op_size>>
    /\ UNCHANGED decodeVars

CallZero ==
    /\ op_call = "none"
    /\ op_call' = "zero"
    /\ op_result' = Some(zero(op_size))
    /\ UNCHANGED <<op_value, op_size>>
    /\ UNCHANGED decodeVars

CallTmp ==
    /\ op_call = "none"
    /\ op_call' = "tmp"
    /\ op_result' = Some(tmp(op_value, op_size))
    /\ UNCHANGED <<op_value, op_size>>
    /\ UNCHANGED decodeVars

NextOperand ==
    \/ CallConstant
    \/ CallNegativeConstant
    \/ CallZero
    \/ CallTmp

SpecOperand == InitOperand /\ [][NextOperand]_vars

----------------------------------------------------------------------------
(* Properties.                                                             *)

\* the bytes consumed so far
Consumed == SubSeq(input, 1, Len(input) - Len(code))

IsSuffix(c, whole) ==
    /\ Len(c) <= Len(whole)
    /\ c = SubSeq(whole, Len(whole) - Len(c) + 1, Len(whole))

Occupied == {g \in LegacyPrefixGroup : by_group[g] # None}

PrefixSet == {by_group[g][1] : g \in Occupied}

SameGroupPair(s, n) ==
    \E i \in 1..n : \E j \in 1..n : i < j /\ group(s[i]) = group(s[j])

RECURSIVE LeadingRunLen(_)
LeadingRunLen(s) ==
    IF ~FindsPrefix(s) THEN 0 ELSE 1 + LeadingRunLen(Tail(s))

Resolved == operand_size # None /\ address_size # None

\* 2^64 - 8, as a u64
NegEight64 == <<248, 255, 255, 255, 255, 255, 255, 255>>

SmallU64(n) == <<n, 0, 0, 0, 0, 0, 0, 0>>

\* the input is a conflict free run of legacy prefixes and one byte 0x50 + r
PushRegInput ==
    IF input = <<>> THEN FALSE
    ELSE /\ input[Len(input)] \in 80..87
         /\ \A i \in 1..(Len(input) - 1) : input[i] \in LegacyPrefix
         /\ ~SameGroupPair(input, Len(input) - 1)

\* C1: on a conflict free run of legacy prefixes followed by the single byte
\* 0x50 + r, in every mode and segment default, translate never panics and
\* returns exactly Add(RSP, Const 2^64 - 8 size 8), Store(RSP, Regs 8r size 8)
C1_PushRegLowering ==
    PushRegInput =>
        /\ outcome \in {"running", "translated"}
        /\ pc = "done" =>
              /\ outcome = "translated"
              /\ insns =
                   << [opcode |-> "Add",
                       operands |-> << [space |-> "Regs", offset |-> SmallU64(32), size |-> 8],
                                       [space |-> "Const", offset |-> NegEight64, size |-> 8] >>],
                      [opcode |-> "Store",
                       operands |-> << [space |-> "Regs", offset |-> SmallU64(32), size |-> 8],
                                       [space |-> "Regs",
                                        offset |-> SmallU64(8 * (input[Len(input)] - 80)),
                                        size |-> 8] >>] >>

C1_Witness ==
    /\ pc = "done"
    /\ outcome = "translated"
    /\ cpu_mode = "RealMode"
    /\ input = <<OperandSizeOverride, 87>>
    /\ operand_size = Some(4)
    /\ Len(insns) = 2

\* the rows of the operand size table: mode, segment default, operand size
\* override present, REX.W set, result
OperandSizeRows ==
    {<<"RealMode", seg, FALSE, w, 2>> : seg \in X86SegmentDefaultOperandSize, w \in BOOLEAN}
    \cup {<<"RealMode", seg, TRUE, w, 4>> : seg \in X86SegmentDefaultOperandSize, w \in BOOLEAN}
    \cup {<<"ProtectedMode", "B16", FALSE, w, 2>> : w \in BOOLEAN}
    \cup {<<"ProtectedMode", "B16", TRUE, w, 4>> : w \in BOOLEAN}
    \cup {<<"ProtectedMode", "B32", FALSE, w, 4>> : w \in BOOLEAN}
    \cup {<<"ProtectedMode", "B32", TRUE, w, 2>> : w \in BOOLEAN}
    \cup {<<"LongMode", seg, o, TRUE, 8>> : seg \in X86SegmentDefaultOperandSize, o \in BOOLEAN}
    \cup {<<"LongMode", seg, FALSE, FALSE, 4>> : seg \in X86SegmentDefaultOperandSize}
    \cup {<<"LongMode", seg, TRUE, FALSE, 2>> : seg \in X86SegmentDefaultOperandSize}

\* C2: the resolved operand size is the table's entry for the mode, the
\* segment default, the presence of the operand size override and REX.W,
\* whatever other legacy prefixes are present
C2_OperandSizeTable ==
    Resolved =>
        <<cpu_mode, code_segment_default_operand_size,
          OperandSizeOverride \in PrefixSet, RexW(rex), operand_size[1]>>
            \in OperandSizeRows

C2_Witness ==
    /\ Resolved
    /\ cpu_mode = "LongMode"
    /\ RexW(rex)
    /\ OperandSizeOverride \in PrefixSet
    /\ operand_size = Some(8)

\* the rows of the address size claim: mode, segment default, address size
\* override present, result; in long mode the rows are those under REX.W
AddressSizeRows ==
    {<<"RealMode", seg, FALSE, 2>> : seg \in X86SegmentDefaultOperandSize}
    \cup {<<"RealMode", seg, TRUE, 4>> : seg \in X86SegmentDefaultOperandSize}
    \cup {<<"ProtectedMode", "B16", FALSE, 2>>, <<"ProtectedMode", "B16", TRUE, 4>>,
           <<"ProtectedMode", "B32", FALSE, 4>>, <<"ProtectedMode", "B32", TRUE, 2>>}
    \cup {<<"LongMode", seg, FALSE, 8>> : seg \in X86SegmentDefaultOperandSize}
    \cup {<<"LongMode", seg, TRUE, 4>> : seg \in X86SegmentDefaultOperandSize}

\* C3: the resolved address size flips the mode's default on the address
\* size override in real and protected mode, and in long mode under REX.W
\* it is 8 without the override and 4 with it
C3_AddressSizeTable ==
    (Resolved /\ (cpu_mode = "LongMode" => RexW(rex))) =>
        <<cpu_mode, code_segment_default_operand_size,
          AddressSizeOverride \in PrefixSet, address_size[1]>>
            \in AddressSizeRows

C3_Witness ==
    /\ Resolved
    /\ cpu_mode = "LongMode"
    /\ RexW(rex)
    /\ AddressSizeOverride \in PrefixSet
    /\ address_size = Some(4)
    /\ operand_size = Some(8)

\* C4: the resolved address size is a function of the mode, the segment
\* default and the presence of the address size override alone, whatever the
\* REX prefix; in long mode it is 8 without the override and 4 with it
C4_AddressSizeIgnoresRex ==
    Resolved =>
        /\ <<cpu_mode, code_segment_default_operand_size,
             AddressSizeOverride \in PrefixSet, address_size[1]>>
               \in AddressSizeRows
        /\ \A r \in {None} \cup {Some(RexFromBits(n)) : n \in 0..15} :
              resolve_address_size(cpu_mode, code_segment_default_operand_size,
                                   by_group, r) = address_size[1]

\* C7: outside long mode no REX prefix is extracted and no byte is consumed
\* after the legacy prefixes
C7_RexOnlyInLongMode ==
    cpu_mode # "LongMode" =>
        /\ rex = None
        /\ Len(input) - Len(code) = Cardinality(Occupied)

\* C8: when the input ends before an opcode byte, translate ends in an
\* error outcome of its own, neither the same-group outcome nor the
\* unrecognized-opcode outcome
C8_TruncatedInputDistinct ==
    (pc = "done" /\ code = <<>>) =>
        outcome \notin {"translated", "panic_same_group", "panic_todo"}

\* C5: when the leading run of legacy prefix bytes holds two prefixes of one
\* group (equal or not), the scan never returns: it consumes only a conflict
\* free run and ends in the panic of add on a byte whose group is occupied,
\* with no Translation
C5_SameGroupFails ==
    SameGroupPair(input, LeadingRunLen(input)) =>
        /\ pc # "extract_rex_prefix"
        /\ ~SameGroupPair(input, Len(input) - Len(code))
        /\ pc = "done" =>
              /\ outcome = "panic_same_group"
              /\ insns = <<>>
              /\ FindsPrefix(code)
              /\ by_group[group(code[1])] # None

C5_Witness ==
    /\ pc = "done"
    /\ outcome = "panic_same_group"
    /\ input = <<SsSegmentOverride, OperandSizeOverride, GsSegmentOverride>>
    /\ code = <<GsSegmentOverride>>
    /\ by_group[1] = Some(SsSegmentOverride)

\* C6: when the scan returns, every permutation of the consumed prefix
\* bytes, followed by the same remaining bytes, yields the same by_group
\* array and leaves the same remaining bytes
C6_OrderIndependent ==
    pc = "extract_rex_prefix" =>
        LET n == Len(input) - Len(code)
        IN  \A f \in Permutations(1..n) :
              extract_legacy_prefixes([i \in 1..n |-> input[f[i]]] \o code)
                = [panic |-> FALSE, by_group |-> by_group, code |-> code]

C6_Witness ==
    /\ pc = "extract_rex_prefix"
    /\ input = <<AddressSizeOverride, FsSegmentOverride, Repnz, OperandSizeOverride, 80>>
    /\ code = <<80>>
    /\ by_group = [g \in LegacyPrefixGroup |->
                     Some(<<Repnz, FsSegmentOverride, OperandSizeOverride,
                            AddressSizeOverride>>[g + 1])]

\* C10: throughout the scan the cursor is a suffix of the input and the
\* number of consumed bytes is the number of occupied groups, at most 4; the
\* scan returns only in front of a byte that is no prefix or at the end of
\* the input, ends otherwise in the same-group panic, and never returns
\* when the input starts with five prefix bytes
C10_ScanBounded ==
    /\ IsSuffix(code, input)
    /\ Len(input) - Len(code) = Cardinality(Occupied)
    /\ Len(input) - Len(code) <= 4
    /\ pc = "extract_rex_prefix" => ~FindsPrefix(code)
    /\ pc = "done" =>
          /\ outcome = "panic_same_group"
          /\ FindsPrefix(code)
    /\ LeadingRunLen(input) >= 5 => pc # "extract_rex_prefix"

C10_Witness ==
    /\ pc = "done"
    /\ outcome = "panic_same_group"
    /\ Len(input) = 5
    /\ Len(code) = 1
    /\ Cardinality(Occupied) = 4

\* the u64 fits in size bytes
FitsIn(v, size) == \A i \in U64Bytes : i > size => v[i] = 0

\* C9: constant, zero and negative_constant build an operand in space Const
\* of the given size whose offset fits the size; the offset of
\* negative_constant is the two's complement of the value at that width
C9_ConstantsSizeMasked ==
    op_call \in {"constant", "zero", "negative_constant"} =>
        /\ op_result[1].space = "Const"
        /\ op_result[1].size = op_size
        /\ FitsIn(op_result[1].offset, op_size)
        /\ op_call = "negative_constant" =>
              \A i \in U64Bytes :
                 op_result[1].offset[i] =
                    IF i > op_size THEN 0 ELSE WrappingNeg(op_value)[i]

====
